---------------------------- MODULE Spec2Model ----------------------------
(***************************************************************************)
(* AeroSDK: the component CRUD service (server/routes.py over the          *)
(* "components" table of server/models.py) and its typed client            *)
(* (sdk/client.py).                                                        *)
(*                                                                         *)
(* Values.  A JSON/Python value that may be null is a set: Null is {} and  *)
(* a value v is {v}.  A string is modelled by its length (the string of n  *)
(* copies of one character), except component_type values, which are the  *)
(* strings themselves.  Timestamps are readings of a logical clock.        *)
(***************************************************************************)
EXTENDS Integers, FiniteSets

VARIABLES
    components,   \* the rows of table "components" (server/models.py)
    id_seq,       \* last value handed out by the primary-key sequence
    now,          \* start time of the latest writing transaction (func.now())
    request,      \* the HTTP request last issued
    response,     \* the HTTP response to it (or none)
    call,         \* the client call that issued it and how the call ended
    closed,       \* whether the client's httpx.Client has been closed
    sessions      \* the database sessions of the requests being handled

vars == <<components, id_seq, now, request, response, call, closed, sessions>>
store == <<components, id_seq, now>>

---------------------------------------------------------------------------
(* Bounds of the model *)

MaxId == 2
MaxClock == 3

(* Program constants *)

NameMinLen == 1
NameMaxLen == 255
DescriptionMaxLen == 1000
MaterialMaxLen == 100

---------------------------------------------------------------------------
(* sdk/models.py *)

ComponentType == {"fuselage", "wing", "engine", "landing_gear", "avionics", "other"}

Fields == {"name", "description", "component_type", "weight_kg", "material"}

Null == {}

\* A JSON object: the keys it carries and their values (Null for a key it
\* does not carry, so that equal objects are equal values).  Besides the
\* fields of the models a body may carry the keys id and created_at.
Payload(keys, n, d, t, w, m) ==
    [keys |-> keys,
     v |-> [name |-> n, description |-> d, component_type |-> t,
            weight_kg |-> w, material |-> m, id |-> Null, created_at |-> Null]]

\* Field(..., min_length=lo, max_length=hi) on a str
StrOk(x, lo, hi) == \A n \in x : n >= lo /\ n <= hi

\* ComponentBase / ComponentCreate: name, component_type, weight_kg required
ComponentCreateOk(body) ==
    /\ body.v.name # Null
    /\ StrOk(body.v.name, NameMinLen, NameMaxLen)
    /\ StrOk(body.v.description, 0, DescriptionMaxLen)
    /\ body.v.component_type # Null
    /\ body.v.component_type \subseteq ComponentType
    /\ body.v.weight_kg # Null
    /\ \A w \in body.v.weight_kg : w > 0
    /\ StrOk(body.v.material, 0, MaterialMaxLen)

\* weight_kg bounded by ge=0 instead of gt=0
ComponentUpdateOk_ge0(body) ==
    /\ StrOk(body.v.name, NameMinLen, NameMaxLen)
    /\ StrOk(body.v.description, 0, DescriptionMaxLen)
    /\ body.v.component_type \subseteq ComponentType
    /\ \A w \in body.v.weight_kg : w >= 0
    /\ StrOk(body.v.material, 0, MaterialMaxLen)

\* ComponentUpdate: every field Optional, same bounds when not None
ComponentUpdateOk(body) ==
    /\ StrOk(body.v.name, NameMinLen, NameMaxLen)
    /\ StrOk(body.v.description, 0, DescriptionMaxLen)
    /\ body.v.component_type \subseteq ComponentType
    /\ \A w \in body.v.weight_kg : w > 0
    /\ StrOk(body.v.material, 0, MaterialMaxLen)

\* model_dump(): every field of the model, None included
model_dump(obj) == [keys |-> Fields, v |-> obj.v]

\* exclude_none left out
model_dump_keep_none(obj) == [keys |-> Fields, v |-> obj.v]

\* a model configured with extra="allow": keys that are no field of the
\* model are kept and dumped with the fields
model_dump_exclude_none_extra(obj) ==
    [keys |-> {f \in obj.keys \cup Fields : obj.v[f] # Null}, v |-> obj.v]

\* model_dump(exclude_none=True): the fields of the model (keys of the body
\* that are no field of it were dropped when it was parsed) whose value is
\* not None
model_dump_exclude_none(obj) ==
    [keys |-> {f \in Fields : obj.v[f] # Null}, v |-> obj.v]

---------------------------------------------------------------------------
(* HTTP messages *)

\* the query string of a list request: each parameter is Null when not supplied
Query(component_type, type) == [component_type |-> component_type, type |-> type]

NoQuery == Query(Null, Null)

NoBody == Payload({}, Null, Null, Null, Null, Null)

Req(route, id, query, body) ==
    [route |-> route, id |-> id, query |-> query, body |-> body]

Resp(status, body) == [status |-> status, body |-> body, origin |-> "server"]

NoResponse == [status |-> 0, body |-> {}, origin |-> "none"]

NoRequest == Req("none", 0, NoQuery, NoBody)

---------------------------------------------------------------------------
(* server/models.py, server/routes.py *)

\* FastAPI answers a request whose body fails the handler's pydantic model
\* with 422, before the handler runs.
HTTP_422_UNPROCESSABLE_ENTITY == 422

\* db.query(ComponentModel).filter(ComponentModel.id == component_id)
ById(component_id) == {c \in components : c.id = component_id}

\* `if component_type:` - a supplied, non-empty string
Truthy(x) == x # Null /\ x # {""}

\* GET /api/components
list_components(component_type) ==
    /\ response' =
         IF Truthy(component_type)
         THEN IF component_type \subseteq ComponentType
              THEN Resp(200, {c \in components : c.component_type = component_type})
              ELSE Resp(400, {})
         ELSE Resp(200, components)
    /\ UNCHANGED store

\* the `if not component` check left out
get_component_unchecked(component_id) ==
    /\ response' = Resp(200, ById(component_id))
    /\ UNCHANGED store

\* GET /api/components/{component_id}
get_component(component_id) ==
    /\ response' = IF ById(component_id) = {}
                   THEN Resp(404, {})
                   ELSE Resp(200, ById(component_id))
    /\ UNCHANGED store

\* the id taken from the number of rows instead of the sequence
NewRow_count(data, id, t) ==
    [id |-> Cardinality(components) + 1,
     name |-> data.v.name,
     description |-> data.v.description,
     component_type |-> data.v.component_type,
     weight_kg |-> data.v.weight_kg,
     material |-> data.v.material,
     created_at |-> t,
     updated_at |-> t]

\* the row an INSERT of the validated payload creates: the sequence gives the
\* id, and both timestamp columns take server_default func.now()
NewRow(data, id, t) ==
    [id |-> id,
     name |-> data.v.name,
     description |-> data.v.description,
     component_type |-> data.v.component_type,
     weight_kg |-> data.v.weight_kg,
     material |-> data.v.material,
     created_at |-> t,
     updated_at |-> t]

\* POST /api/components
create_component(component_data) ==
    IF ~ComponentCreateOk(component_data)
    THEN /\ response' = Resp(HTTP_422_UNPROCESSABLE_ENTITY, {})
         /\ UNCHANGED store
    ELSE /\ id_seq < MaxId
         /\ now < MaxClock
         /\ id_seq' = id_seq + 1
         /\ now' = now + 1
         /\ components' = components \cup {NewRow(component_data, id_seq', now')}
         /\ response' = Resp(201, {NewRow(component_data, id_seq', now')})

\* for field, value in update_data.items(): setattr(component, field, value)
SetAttrs(c, update_data) ==
    LET new(f) == IF f \in update_data.keys THEN update_data.v[f] ELSE c[f]
        column(f) == IF f \in update_data.keys
                     THEN CHOOSE x \in update_data.v[f] : TRUE
                     ELSE c[f]
    IN  [id |-> column("id"),
         name |-> new("name"),
         description |-> new("description"),
         component_type |-> new("component_type"),
         weight_kg |-> new("weight_kg"),
         material |-> new("material"),
         created_at |-> column("created_at"),
         updated_at |-> c.updated_at]

\* db.commit(): the unit of work emits an UPDATE only for an object with a
\* net change, and only an emitted UPDATE evaluates onupdate=func.now()
Flush(old, new, t) ==
    IF new = old THEN old ELSE [new EXCEPT !.updated_at = t]

\* the bounds checked field by field inside the setattr loop: the fields in
\* bounds are applied and committed before the request is rejected
update_component_eager(component_id, component_data) ==
    IF ById(component_id) = {}
    THEN /\ response' = Resp(404, {})
         /\ UNCHANGED store
    ELSE LET component == CHOOSE c \in ById(component_id) : TRUE
             update_data == model_dump_exclude_none(component_data)
             in_bounds ==
                {f \in update_data.keys :
                    ComponentUpdateOk([keys |-> {f},
                                       v |-> [NoBody.v EXCEPT ![f] = update_data.v[f]]])}
             after == Flush(component,
                            SetAttrs(component, [keys |-> in_bounds, v |-> update_data.v]),
                            now + 1)
         IN  /\ after # component => now < MaxClock
             /\ components' = (components \ {component}) \cup {after}
             /\ now' = IF after # component THEN now + 1 ELSE now
             /\ response' = IF ComponentUpdateOk(component_data)
                            THEN Resp(200, {after})
                            ELSE Resp(HTTP_422_UNPROCESSABLE_ENTITY, {})
             /\ UNCHANGED id_seq

\* PUT /api/components/{component_id}
update_component(component_id, component_data) ==
    IF ~ComponentUpdateOk(component_data)
    THEN /\ response' = Resp(HTTP_422_UNPROCESSABLE_ENTITY, {})
         /\ UNCHANGED store
    ELSE IF ById(component_id) = {}
    THEN /\ response' = Resp(404, {})
         /\ UNCHANGED store
    ELSE LET component == CHOOSE c \in ById(component_id) : TRUE
             update_data == model_dump_exclude_none(component_data)
             after == Flush(component, SetAttrs(component, update_data), now + 1)
         IN  /\ after # component => now < MaxClock
             /\ components' = (components \ {component}) \cup {after}
             /\ now' = IF after # component THEN now + 1 ELSE now
             /\ response' = Resp(200, {after})
             /\ UNCHANGED id_seq

\* delete as a no-op success on an id that is not stored
delete_component_idempotent(component_id) ==
    /\ components' = components \ ById(component_id)
    /\ response' = Resp(204, {})
    /\ UNCHANGED <<id_seq, now>>

\* DELETE /api/components/{component_id}
delete_component(component_id) ==
    IF ById(component_id) = {}
    THEN /\ response' = Resp(404, {})
         /\ UNCHANGED store
    ELSE /\ components' = components \ ById(component_id)
         /\ response' = Resp(204, {})
         /\ UNCHANGED <<id_seq, now>>

\* APIRouter(prefix="/api/components"): the route a request is dispatched to
Serve(req) ==
    \/ req.route = "list" /\ list_components(req.query.component_type)
    \/ req.route = "get" /\ get_component(req.id)
    \/ req.route = "create" /\ create_component(req.body)
    \/ req.route = "update" /\ update_component(req.id, req.body)
    \/ req.route = "delete" /\ delete_component(req.id)

---------------------------------------------------------------------------
(* sdk/client.py *)

\* response.raise_for_status(): HTTPStatusError unless the status is 2xx
raise_for_status(status_code) ==
    IF status_code >= 200 /\ status_code <= 299 THEN "Success" ELSE "HTTPStatusError"

\* the 4xx branch tested before the 404 branch
handle_response_4xx_first(status_code) ==
    IF status_code >= 500 THEN "ServerError"
    ELSE IF status_code >= 400 THEN "ValidationError"
    ELSE IF status_code = 404 THEN "NotFoundError"
    ELSE raise_for_status(status_code)

\* AeroClient._handle_response, then the decoding of the body
handle_response(status_code) ==
    IF status_code = 404 THEN "NotFoundError"
    ELSE IF status_code >= 500 THEN "ServerError"
    ELSE IF status_code >= 400 THEN "ValidationError"
    ELSE raise_for_status(status_code)

\* no `except` clause: the transport's exception leaves the call
except_nothing(e) == e

\* `except httpx.ConnectError`: the one transport exception the client
\* translates; any other leaves the call as it is
except(e) == IF e = "ConnectError" THEN "ConnectionError" ELSE e

\* a transport that sends a request again after a transport failure
Sends_retrying(transport) ==
    IF transport \in {"none", "closed"} THEN 0
    ELSE IF transport \in {"ConnectError", "ConnectTimeout", "ReadTimeout"} THEN 2
    ELSE 1

\* the requests one call hands to the transport: each operation calls
\* self._client.get/post/put/delete once, outside any loop, on a client
\* built with the default transport (no retries, no redirects followed);
\* a closed client hands over none, and close() sends nothing
Sends(transport) ==
    IF transport \in {"none", "closed"} THEN 0 ELSE 1

\* the last call of the client: the operation, what the transport did, what
\* the call returned or raised, and the requests it sent
Call(op, transport, outcome) ==
    [op |-> op, transport |-> transport, outcome |-> outcome,
     sends |-> Sends(transport)]

\* a transport that sends whether or not the client is closed
Transport_unguarded(op, req) ==
    /\ \/ /\ Serve(req)
          /\ call' = Call(op, "response", handle_response(response'.status))
       \/ /\ Serve(req)
          /\ call' = Call(op, "ReadTimeout", except("ReadTimeout"))
       \/ /\ \E e \in {"ConnectError", "ConnectTimeout"} :
                call' = Call(op, e, except(e))
          /\ response' = NoResponse
          /\ UNCHANGED store
    /\ UNCHANGED <<closed, sessions>>

\* self._client.get/post/put/delete(...) inside try/except: the server answers
\* and the status decides, or the answer does not come in time (the server
\* has handled the request all the same), or no connection is made; a closed
\* httpx.Client sends nothing and raises RuntimeError
Transport(op, req) ==
    /\ \/ /\ ~closed
          /\ Serve(req)
          /\ call' = Call(op, "response", handle_response(response'.status))
       \/ /\ ~closed
          /\ Serve(req)
          /\ call' = Call(op, "ReadTimeout", except("ReadTimeout"))
       \/ /\ ~closed
          /\ \E e \in {"ConnectError", "ConnectTimeout"} :
                call' = Call(op, e, except(e))
          /\ response' = NoResponse
          /\ UNCHANGED store
       \/ /\ closed
          /\ call' = Call(op, "closed", except("RuntimeError"))
          /\ response' = NoResponse
          /\ UNCHANGED store
    /\ UNCHANGED <<closed, sessions>>

AeroClient_get_components ==
    /\ request' = Req("list", 0, NoQuery, NoBody)
    /\ Transport("get_components", request')

AeroClient_get_component(component_id) ==
    /\ request' = Req("get", component_id, NoQuery, NoBody)
    /\ Transport("get_component", request')

AeroClient_create_component(component) ==
    /\ request' = Req("create", 0, NoQuery, model_dump(component))
    /\ Transport("create_component", request')

AeroClient_update_component(component_id, component) ==
    /\ request' = Req("update", component_id, NoQuery, model_dump_exclude_none(component))
    /\ Transport("update_component", request')

AeroClient_delete_component(component_id) ==
    /\ request' = Req("delete", component_id, NoQuery, NoBody)
    /\ Transport("delete_component", request')

\* params["type"] = component_type.value when a type is given
AeroClient_filter_components(component_type) ==
    /\ request' = Req("list", 0, Query(Null, component_type), NoBody)
    /\ Transport("filter_components", request')

\* close() and __exit__: self._client.close()
AeroClient_close ==
    /\ closed' = TRUE
    /\ call' = Call("close", "none", "Success")
    /\ request' = NoRequest
    /\ response' = NoResponse
    /\ UNCHANGED <<store, sessions>>

---------------------------------------------------------------------------
(* Inputs *)

Ids == 1 .. (MaxId + 1)

With(p, f, x) == [keys |-> p.keys \cup {f}, v |-> [p.v EXCEPT ![f] = x]]

Without(p, f) == [keys |-> p.keys \ {f}, v |-> [p.v EXCEPT ![f] = Null]]

Wing1 == Payload({"name", "component_type", "weight_kg"}, {1}, Null, {"wing"}, {1}, Null)

Engine2 == Payload(Fields, {2}, {1}, {"engine"}, {2}, {1})

\* values outside a field's bounds
BadValues(f) ==
    CASE f = "name" -> {{0}, {NameMaxLen + 1}}
      [] f = "description" -> {{DescriptionMaxLen + 1}}
      [] f = "component_type" -> {{"Wing"}}
      [] f = "weight_kg" -> {{0}, {-1}}
      [] f = "material" -> {{MaterialMaxLen + 1}}

\* p with one of the fields fs set out of bounds
OutOfBounds(p, fs) == UNION {{With(p, f, x) : x \in BadValues(f)} : f \in fs}

CreateBodies ==
    {Wing1, Engine2, model_dump(Wing1)}
      \cup OutOfBounds(Wing1, Fields)
      \cup OutOfBounds(Engine2, {"weight_kg"})
      \cup {Without(Wing1, f) : f \in {"name", "component_type", "weight_kg"}}
      \cup {With(Wing1, "name", Null)}

UpdateBodies ==
    {NoBody,
     With(NoBody, "weight_kg", {1}),
     With(NoBody, "component_type", {"engine"}),
     With(With(NoBody, "name", {2}), "weight_kg", Null),
     With(With(NoBody, "description", Null), "material", {1})}
      \cup OutOfBounds(NoBody, Fields)
      \cup {With(With(NoBody, "name", {2}), "weight_kg", {0})}
      \cup {With(With(NoBody, "id", {0}), "name", {2}),
            With(NoBody, "created_at", {0})}

QueryValues == {Null, {"wing"}, {"engine"}, {"other"}, {""}, {"Wing"}, {"rocket"}}

\* the objects a caller can build: the constructors validate
ComponentCreates == {b \in CreateBodies : ComponentCreateOk(b) /\ b.keys \subseteq Fields}

ComponentUpdates == {b \in UpdateBodies : ComponentUpdateOk(b) /\ b.keys \subseteq Fields}

---------------------------------------------------------------------------
(* The service and its client *)

Init ==
    /\ components = {}
    /\ id_seq = 0
    /\ now = 0
    /\ request = NoRequest
    /\ response = NoResponse
    /\ call = Call("none", "none", "none")
    /\ closed = FALSE
    /\ sessions = {}

NoCall == Call("none", "none", "none")

\* requests made to the API directly
GET_components ==
    \E t \in QueryValues :
        /\ request' = Req("list", 0, Query(t, Null), NoBody)
        /\ list_components(t)
        /\ call' = NoCall
        /\ UNCHANGED <<closed, sessions>>

GET_component ==
    \E i \in Ids :
        /\ request' = Req("get", i, NoQuery, NoBody)
        /\ get_component(i)
        /\ call' = NoCall
        /\ UNCHANGED <<closed, sessions>>

POST_component ==
    \E b \in CreateBodies :
        /\ request' = Req("create", 0, NoQuery, b)
        /\ create_component(b)
        /\ call' = NoCall
        /\ UNCHANGED <<closed, sessions>>

PUT_component ==
    \E i \in Ids, b \in UpdateBodies :
        /\ request' = Req("update", i, NoQuery, b)
        /\ update_component(i, b)
        /\ call' = NoCall
        /\ UNCHANGED <<closed, sessions>>

DELETE_component ==
    \E i \in Ids :
        /\ request' = Req("delete", i, NoQuery, NoBody)
        /\ delete_component(i)
        /\ call' = NoCall
        /\ UNCHANGED <<closed, sessions>>

HttpRequest ==
    GET_components \/ GET_component \/ POST_component \/ PUT_component \/ DELETE_component

ClientCall ==
    \/ AeroClient_get_components
    \/ \E i \in Ids : AeroClient_get_component(i)
    \/ \E c \in ComponentCreates : AeroClient_create_component(c)
    \/ \E i \in Ids, u \in ComponentUpdates : AeroClient_update_component(i, u)
    \/ \E i \in Ids : AeroClient_delete_component(i)
    \/ \E t \in {Null, {"wing"}, {"engine"}} : AeroClient_filter_components(t)
    \/ AeroClient_close

\* test_client.py: the transport is patched to return a response of a given
\* status, or to raise
StatusCodes ==
    {100, 101, 199, 200, 201, 204, 299, 300, 301, 307, 399,
     400, 401, 403, 404, 405, 409, 422, 499, 500, 502, 503, 599}

TransportErrors == {"ConnectError", "ConnectTimeout", "ReadTimeout"}

Patched(op) ==
    /\ \/ \E s \in StatusCodes :
            /\ response' = [status |-> s, body |-> {}, origin |-> "mock"]
            /\ call' = Call(op, "response", handle_response(s))
       \/ \E e \in TransportErrors :
            /\ response' = NoResponse
            /\ call' = Call(op, e, except(e))
    /\ UNCHANGED <<store, closed, sessions>>

MockedCall ==
    \/ /\ request' = Req("list", 0, NoQuery, NoBody)
       /\ Patched("get_components")
    \/ \E i \in Ids :
       /\ request' = Req("get", i, NoQuery, NoBody)
       /\ Patched("get_component")
    \/ \E c \in ComponentCreates :
       /\ request' = Req("create", 0, NoQuery, model_dump(c))
       /\ Patched("create_component")
    \/ \E i \in Ids, u \in ComponentUpdates :
       /\ request' = Req("update", i, NoQuery, model_dump_exclude_none(u))
       /\ Patched("update_component")
    \/ \E i \in Ids :
       /\ request' = Req("delete", i, NoQuery, NoBody)
       /\ Patched("delete_component")
    \/ \E t \in {Null, {"wing"}, {"engine"}} :
       /\ request' = Req("list", 0, Query(Null, t), NoBody)
       /\ Patched("filter_components")

Next == HttpRequest \/ ClientCall

\* the service under any requests and its client
Spec == Init /\ [][Next]_vars

\* the service under any requests
ServerSpec == Init /\ [][HttpRequest]_vars

\* the client, its requests served by the service
ClientSpec == Init /\ [][ClientCall]_vars

\* the client over a patched transport
MockSpec == Init /\ [][MockedCall]_vars

---------------------------------------------------------------------------
(* Properties of the service *)

\* the rows of a table with a given id
Stored(rows, id) == {c \in rows : c.id = id}

\* ids come from the sequence: none stored is ahead of it
IdsFromSequence(rows, seq) == \A c \in rows : c.id <= seq

\* C1: delete is not idempotent.  A delete of a stored id answers 204 and
\* removes exactly that record; a delete of an id that is not stored (never
\* created, or deleted before) answers 404 and changes nothing; and an id
\* that was assigned and is gone is never stored again, so every later
\* delete of it is of the second kind.
DeleteNotIdempotent ==
    [][/\ request'.route = "delete" =>
            IF Stored(components, request'.id) # {}
            THEN /\ response'.status = 204
                 /\ components' = components \ Stored(components, request'.id)
            ELSE /\ response'.status = 404
                 /\ components' = components
       /\ \A i \in Ids : i <= id_seq /\ Stored(components, i) = {}
                            => Stored(components', i) = {}
       /\ IdsFromSequence(components', id_seq')]_vars

\* C1 witness: a second delete of an id that had been assigned
SecondDeleteNotFound ==
    /\ request.route = "delete"
    /\ request.id <= id_seq
    /\ response.status = 404

NonPositiveWeight(body) == \E w \in body.v.weight_kg : w <= 0

\* What the service does with such a create: it answers 422, which the
\* client raises as ValidationError, and the stored records (and the id
\* sequence) are the same after the request as before it.
CreateNonPositiveWeightRejected ==
    [][request'.route = "create" /\ NonPositiveWeight(request'.body) =>
          /\ response'.status = 422
          /\ handle_response(response'.status) = "ValidationError"
          /\ components' = components
          /\ id_seq' = id_seq]_vars

\* C2: a create whose weight_kg is <= 0 is answered 400 and the stored
\* records are the same after the request as before it.
CreateNonPositiveWeightIs400 ==
    [][request'.route = "create" /\ NonPositiveWeight(request'.body) =>
          /\ response'.status = 400
          /\ components' = components]_vars

\* such a create, rejected while a record is stored
NonPositiveWeightCreateSeen ==
    /\ request.route = "create"
    /\ NonPositiveWeight(request.body)
    /\ response.status = 422
    /\ components # {}

\* C3: a create with a valid payload answers 201 with one Component, now
\* stored, whose weight_kg is the payload's, whose id differs from every id
\* the sequence has handed out before (those of deleted records included),
\* and whose created_at equals its updated_at.
CreateReturnsFreshComponent ==
    [][request'.route = "create" /\ ComponentCreateOk(request'.body) =>
          /\ response'.status = 201
          /\ Cardinality(response'.body) = 1
          /\ response'.body \subseteq components'
          /\ IdsFromSequence(components, id_seq)
          /\ \A c \in response'.body :
                /\ c.weight_kg = request'.body.v.weight_kg
                /\ \A i \in 1 .. id_seq : c.id # i
                /\ \A x \in components : c.id # x.id
                /\ c.created_at = c.updated_at]_vars

\* C3 witness: a create answered 201 after an earlier record was deleted
CreateAfterDeleteSeen ==
    /\ request.route = "create"
    /\ response.status = 201
    /\ id_seq = 2
    /\ Cardinality(components) = 1

\* C4: partial update.  After an update answered 200, every field the payload
\* does not carry, or carries as null, has its old value, every field it
\* carries with a value has that value, id and created_at are the old ones,
\* and every other record is untouched.
PartialUpdate ==
    [][request'.route = "update" /\ response'.status = 200 =>
          \E old \in Stored(components, request'.id) :
          \E new \in Stored(components', request'.id) :
             /\ response'.body = {new}
             /\ \A f \in Fields :
                   new[f] = IF f \in request'.body.keys /\ request'.body.v[f] # Null
                            THEN request'.body.v[f]
                            ELSE old[f]
             /\ new.id = old.id
             /\ new.created_at = old.created_at
             /\ components' \ {new} = components \ {old}]_vars

\* C4 witness: an update that named a new name and a null weight_kg
PartialUpdateSeen ==
    /\ request.route = "update"
    /\ request.body = With(With(NoBody, "name", {2}), "weight_kg", Null)
    /\ response.status = 200
    /\ \E c \in response.body : c.name = {2} /\ c.weight_kg = {1}

\* C5: every update answered 200 leaves the record's updated_at strictly
\* greater than it was.
UpdateAdvancesUpdatedAt ==
    [][request'.route = "update" /\ response'.status = 200 =>
          \A old \in Stored(components, request'.id) :
          \A new \in Stored(components', request'.id) :
             new.updated_at > old.updated_at]_vars

\* C6: a list request with component_type=t answers 200 with exactly the
\* stored records of type t when t is an enumeration value, and 400 whenever
\* the parameter is supplied with any other value.
ListFilterExactOr400 ==
    request.route = "list" /\ request.query.component_type # Null
        /\ response.origin = "server" =>
            IF request.query.component_type \subseteq ComponentType
            THEN /\ response.status = 200
                 /\ response.body =
                      {c \in components : c.component_type = request.query.component_type}
            ELSE response.status = 400

\* C7: get follows the record's lifecycle.  What a create or an update
\* returns is what is stored under that id afterwards, a delete answered 204
\* leaves nothing stored under its id, no request changes a record other
\* than its own, and a get answers 200 with the stored record, or 404 when
\* none is stored (the id never assigned, or its record deleted).
GetFollowsLifecycle ==
    [][/\ request'.route = "get" =>
            response' = IF Stored(components', request'.id) = {}
                        THEN Resp(404, {})
                        ELSE Resp(200, Stored(components', request'.id))
       /\ request'.route \in {"create", "update"} /\ response'.status \in {200, 201} =>
            \A c \in response'.body : Stored(components', c.id) = {c}
       /\ request'.route = "delete" /\ response'.status = 204 =>
            Stored(components', request'.id) = {}
       /\ \A i \in Ids :
            Stored(components', i) # Stored(components, i) =>
               /\ response'.status \in {200, 201, 204}
               /\ request'.route = "create" => i = id_seq'
               /\ request'.route # "create" => i = request'.id
       /\ IdsFromSequence(components', id_seq')]_vars

\* C7 witness: a get of a record that was created and later updated
GetOfUpdatedSeen ==
    /\ request.route = "get"
    /\ response.status = 200
    /\ \E c \in response.body : c.updated_at > c.created_at

\* C12: every stored record has a weight_kg above 0, a component_type of
\* the enumeration, and an updated_at not before its created_at.
PersistedRecordsValid ==
    \A c \in components :
        /\ c.weight_kg # Null
        /\ \A w \in c.weight_kg : w > 0
        /\ c.component_type # Null
        /\ c.component_type \subseteq ComponentType
        /\ c.updated_at >= c.created_at

\* C12 witness: an out-of-bounds update was just refused for a stored record
\* that an earlier update had changed
RefusedUpdateOfUpdatedSeen ==
    /\ request.route = "update"
    /\ ~ComponentUpdateOk(request.body)
    /\ response.status = 422
    /\ \E c \in Stored(components, request.id) : c.updated_at > c.created_at

\* C13: an update that is not answered 200 (its id is not stored, or one of
\* its fields is out of bounds, whatever its other fields) leaves every
\* stored record, updated_at included, as it was.
RejectedUpdateChangesNothing ==
    [][request'.route = "update" /\ response'.status # 200 =>
          /\ components' = components
          /\ id_seq' = id_seq
          /\ now' = now]_vars

\* C13 witness: an update carrying a valid name and an invalid weight_kg was
\* refused and the record still has its old name
MixedUpdateRefusedSeen ==
    /\ request.route = "update"
    /\ request.body.v.name = {2}
    /\ request.body.v.weight_kg = {0}
    /\ response.status # 200
    /\ \E c \in Stored(components, request.id) : c.name = {1}

\* C14: an update answers 404 when its id is not stored and its fields are
\* in bounds, 400 when its id is stored and a field is out of bounds, 200
\* when its id is stored and its fields are in bounds (and 404 or 400 when
\* both fail).
UpdateStatusMapping ==
    request.route = "update" /\ response.origin = "server" =>
        LET stored == Stored(components, request.id) # {}
            ok == ComponentUpdateOk(request.body)
        IN  /\ ~stored /\ ok => response.status = 404
            /\ stored /\ ~ok => response.status = 400
            /\ stored /\ ok => response.status = 200
            /\ ~stored /\ ~ok => response.status \in {400, 404}

\* C20: id and created_at are immutable.  Whatever an update request
\* carries (the keys id and created_at included) and however it is answered,
\* every stored record is still stored afterwards under the same id with
\* the same created_at, and no other id appears.
IdAndCreatedAtImmutable ==
    [][request'.route = "update" =>
          /\ \A c \in components :
                \E d \in components' : d.id = c.id /\ d.created_at = c.created_at
          /\ Cardinality(components') = Cardinality(components)]_vars

\* C20 witness: an update whose body carried an id was answered 200 and the
\* record, renamed, kept its id
UpdateCarryingIdSeen ==
    /\ request.route = "update"
    /\ "id" \in request.body.keys
    /\ response.status = 200
    /\ \E c \in response.body :
          /\ c.id = request.id
          /\ {c.id} # request.body.v.id
          /\ c.name = request.body.v.name
          /\ c.updated_at > c.created_at

---------------------------------------------------------------------------
(* Properties of the client *)

\* the outcomes of the SDK's own taxonomy (sdk/exceptions.py), and success
SdkOutcomes ==
    {"Success", "NotFoundError", "ValidationError", "ServerError", "ConnectionError"}

\* C8: the outcome mapping is total.  Whatever the transport does (a response
\* of any status, or no response), a client call ends with one of the SDK's
\* outcomes.
OutcomeMappingTotal ==
    call.op # "none" => call.outcome \in SdkOutcomes

\* C9: on a response, status 404 raises NotFoundError, any other 4xx raises
\* ValidationError, a status of 500 or more raises ServerError, and a 2xx
\* returns; each status has the one outcome of its class.
StatusClassOutcome ==
    call.transport = "response" =>
        /\ response.status = 404 => call.outcome = "NotFoundError"
        /\ response.status \in (400 .. 499) \ {404} => call.outcome = "ValidationError"
        /\ response.status >= 500 => call.outcome = "ServerError"
        /\ response.status \in 200 .. 299 => call.outcome = "Success"

\* C9 witness: a call answered 404
NotFoundRaisedSeen ==
    /\ call.transport = "response"
    /\ response.status = 404
    /\ call.outcome = "NotFoundError"

\* C10: a call whose timeout expires before a response (while connecting or
\* while reading) ends with ConnectionError, or with a timeout error of the
\* SDK's own.
TimeoutRaisesConnectionError ==
    call.transport \in {"ConnectTimeout", "ReadTimeout"} =>
        call.outcome \in {"ConnectionError", "TimeoutError"}

\* C11: when the connection is refused, whichever of the six operations was
\* called, the call ends with the SDK's ConnectionError; no response was
\* received.
ConnectionRefusedRaisesConnectionError ==
    call.transport = "ConnectError" =>
        /\ call.op \in {"get_components", "get_component", "create_component",
                        "update_component", "delete_component", "filter_components"}
        /\ call.outcome = "ConnectionError"
        /\ response = NoResponse

\* C11 witness: a delete_component call refused while a record is stored
ConnectionRefusedSeen ==
    /\ call.op = "delete_component"
    /\ call.transport = "ConnectError"
    /\ call.outcome = "ConnectionError"
    /\ components # {}

\* C16: once the client is closed it stays closed, and every later call of an
\* operation ends at once with an error (httpx's RuntimeError "client has
\* been closed"): nothing reaches the service, no response is received and
\* the stored records are untouched.
ClosedClientFailsFast ==
    [][closed =>
          /\ closed'
          /\ UNCHANGED store
          /\ response' = NoResponse
          /\ call'.op # "close" =>
                /\ call'.transport = "closed"
                /\ call'.outcome = "RuntimeError"]_vars

\* C16 witness: a call made after close(), itself made after earlier calls
\* had stored a record
CallAfterCloseSeen ==
    /\ closed
    /\ call.op = "update_component"
    /\ call.transport = "closed"
    /\ components # {}

\* C15: the bodies the client sends carry only what the caller set.  The
\* body of an update_component call has exactly the fields the caller set to
\* a value and no null; the body of a create_component call has no entry for
\* description or material when the caller left it unset.
ClientSendsOnlySetFields ==
    [][/\ \A i \in Ids, u \in ComponentUpdates :
            AeroClient_update_component(i, u) =>
               /\ request'.body.keys = {f \in u.keys : u.v[f] # Null}
               /\ \A f \in request'.body.keys : request'.body.v[f] # Null
       /\ \A c \in ComponentCreates :
            AeroClient_create_component(c) =>
               \A f \in {"description", "material"} :
                  f \in request'.body.keys => f \in c.keys]_vars

\* C17: filter_components(t) returns exactly the stored components of type t.
FilterReturnsExactlyType ==
    call.op = "filter_components" /\ call.transport = "response"
        /\ request.query.type # Null =>
            /\ call.outcome = "Success"
            /\ response.body = {c \in components : c.component_type = request.query.type}

\* C21: no automatic retries.  Every call of an operation on an open
\* client sends exactly one request, whatever its outcome (a result, a 4xx,
\* a 5xx or a transport failure), and the service handles at most that one:
\* it assigns at most one id and inserts, rewrites or removes at most one
\* row.
NoAutomaticRetries ==
    [][~closed /\ call'.op \notin {"none", "close"} =>
          /\ call'.sends = 1
          /\ id_seq' <= id_seq + 1
          /\ now' <= now + 1
          /\ Cardinality(components' \ components) <= 1
          /\ Cardinality(components \ components') <= 1]_vars

\* C21 witness: a create whose answer did not come in time was sent once,
\* and the service stored the one record
FailedCreateSentOnce ==
    /\ ~closed
    /\ call.op = "create_component"
    /\ call.transport = "ReadTimeout"
    /\ call.outcome # "Success"
    /\ call.sends = 1
    /\ id_seq = 1
    /\ Cardinality(components) = 1

---------------------------------------------------------------------------
(* Requests served concurrently: every request runs in a database session
   of its own, and the statements of different sessions interleave.  Each
   statement is atomic (READ COMMITTED), a handler is not. *)

MaxSessions == 2

\* SessionLocal(): the session of one request in flight.  loaded is the
\* row the handler's query returned, update_data the attributes set on it,
\* pc the handler's position and status the answer once it is done.
Session(sid, route, id, update_data, loaded, pc, status) ==
    [sid |-> sid, route |-> route, id |-> id, update_data |-> update_data,
     loaded |-> loaded, pc |-> pc, status |-> status]

\* the answer of a handler that has returned or raised
Answer(s, status, body) ==
    /\ sessions' = (sessions \ {s}) \cup {[s EXCEPT !.pc = "done", !.status = status]}
    /\ request' = Req(s.route, s.id, NoQuery, s.update_data)
    /\ response' = Resp(status, body)
    /\ call' = NoCall
    /\ UNCHANGED closed

\* update_component up to its commit: the query and the setattr loop
update_component_query ==
    \E i \in Ids, component_data \in ComponentUpdates :
        /\ Cardinality(sessions) < MaxSessions
        /\ LET sid == Cardinality(sessions) + 1
               update_data == model_dump_exclude_none(component_data)
           IN  IF ById(i) = {}
               THEN Answer(Session(sid, "update", i, update_data, {}, "query", 0), 404, {})
               ELSE /\ sessions' = sessions \cup
                                   {Session(sid, "update", i, update_data, ById(i), "commit", 0)}
                    /\ UNCHANGED <<request, response, call, closed>>
        /\ UNCHANGED store

\* db.commit() of update_component: an UPDATE of the attributes that differ
\* from the loaded row, or no statement when none does.  An UPDATE that
\* matches no row raises StaleDataError, answered 500.
update_component_commit ==
    \E s \in sessions :
        /\ s.route = "update"
        /\ s.pc = "commit"
        /\ LET component == CHOOSE c \in s.loaded : TRUE
               changed == {f \in s.update_data.keys : s.update_data.v[f] # component[f]}
           IN  IF changed = {}
               THEN /\ sessions' = (sessions \ {s}) \cup {[s EXCEPT !.pc = "refresh"]}
                    /\ UNCHANGED <<store, request, response, call, closed>>
               ELSE IF ById(s.id) = {}
               THEN /\ Answer(s, 500, {})
                    /\ UNCHANGED store
               ELSE LET row == CHOOSE c \in ById(s.id) : TRUE
                        after == [SetAttrs(row, [keys |-> changed, v |-> s.update_data.v])
                                     EXCEPT !.updated_at = now + 1]
                    IN  /\ now < MaxClock
                        /\ components' = (components \ {row}) \cup {after}
                        /\ now' = now + 1
                        /\ sessions' = (sessions \ {s}) \cup {[s EXCEPT !.pc = "refresh"]}
                        /\ UNCHANGED <<id_seq, request, response, call, closed>>

\* db.refresh(component) and the return of update_component: a row that is
\* gone raises InvalidRequestError, answered 500
update_component_refresh ==
    \E s \in sessions :
        /\ s.route = "update"
        /\ s.pc = "refresh"
        /\ IF ById(s.id) = {}
           THEN Answer(s, 500, {})
           ELSE Answer(s, 200, ById(s.id))
        /\ UNCHANGED store

\* delete_component up to its commit: the query
delete_component_query ==
    \E i \in Ids :
        /\ Cardinality(sessions) < MaxSessions
        /\ LET sid == Cardinality(sessions) + 1
           IN  IF ById(i) = {}
               THEN Answer(Session(sid, "delete", i, NoBody, {}, "query", 0), 404, {})
               ELSE /\ sessions' = sessions \cup
                                   {Session(sid, "delete", i, NoBody, ById(i), "commit", 0)}
                    /\ UNCHANGED <<request, response, call, closed>>
        /\ UNCHANGED store

\* db.delete(component) and db.commit() of delete_component: a DELETE that
\* matches no row only warns, and the handler returns
delete_component_commit ==
    \E s \in sessions :
        /\ s.route = "delete"
        /\ s.pc = "commit"
        /\ components' = components \ ById(s.id)
        /\ Answer(s, 204, {})
        /\ UNCHANGED <<id_seq, now>>

\* a create, served while no statement of another request runs
ConcurrentCreate ==
    \E c \in ComponentCreates :
        /\ request' = Req("create", 0, NoQuery, c)
        /\ create_component(c)
        /\ call' = NoCall
        /\ UNCHANGED <<closed, sessions>>

ConcurrentRequests ==
    \/ ConcurrentCreate
    \/ update_component_query
    \/ update_component_commit
    \/ update_component_refresh
    \/ delete_component_query
    \/ delete_component_commit

\* the service under requests whose statements interleave
ConcSpec == Init /\ [][ConcurrentRequests]_vars

---------------------------------------------------------------------------
(* Properties of the service under concurrent requests *)

Done(s) == s.pc = "done"

\* every request that was answered got an outcome documented for its route
OutcomesDocumented ==
    \A s \in sessions :
        Done(s) => s.status \in (IF s.route = "update" THEN {200, 404} ELSE {204, 404})

\* a record whose delete was answered 204 is not stored
NoResurrection ==
    \A s \in sessions :
        Done(s) /\ s.route = "delete" /\ s.status = 204 => ById(s.id) = {}

\* a row without the column the store itself maintains
Attributes(rows) ==
    {[f \in Fields \cup {"id", "created_at"} |-> c[f]] : c \in rows}

\* the rows left of `rows` by the request of s served alone
Serially(rows, s) ==
    IF s.route = "delete" THEN {} ELSE {SetAttrs(c, s.update_data) : c \in rows}

\* two answered requests that loaded the same row of an id no other request
\* touched leave what one of their two serial orders leaves
SerialEquivalentState ==
    \A s, t \in sessions :
        /\ s.sid < t.sid /\ s.id = t.id /\ Done(s) /\ Done(t)
        /\ s.loaded = t.loaded /\ s.loaded # {}
        /\ \A u \in sessions : u.id = s.id => u \in {s, t}
        => Attributes(ById(s.id)) \in
              {Attributes(Serially(Serially(s.loaded, s), t)),
               Attributes(Serially(Serially(s.loaded, t), s))}

\* C18: update is atomic under concurrency.  Under every interleaving of
\* concurrent updates and deletes of one id each request ends with a
\* documented outcome (200 or 404 for update, 204 or 404 for delete, never
\* 500), no deleted record reappears and the stored state is that of some
\* serial order of the requests.
UpdateAtomicUnderConcurrency ==
    /\ OutcomesDocumented
    /\ NoResurrection
    /\ SerialEquivalentState

\* C19: of two concurrent deletes of one stored id, under every
\* interleaving of their lookup and delete steps, exactly one is answered
\* 204 and the other 404.
ConcurrentDeletesOne204One404 ==
    \A s, t \in sessions :
        /\ s.sid < t.sid /\ s.id = t.id
        /\ s.route = "delete" /\ t.route = "delete"
        /\ Done(s) /\ Done(t)
        /\ s.loaded # {} \/ t.loaded # {}
        => {s.status, t.status} = {204, 404}

===========================================================================
